---- MODULE Spec2Model ----
(***************************************************************************)
(* Application submission pipeline of the ATS job-listing backend:         *)
(* applyForJob (controllers/ats.controller.js) over the jobs, resumes and  *)
(* ats_scores tables (models/*.js, migrations/complete_setup.sql), the     *)
(* scoring service and the email service.  Each await of the handler is    *)
(* one step of a run; several runs, job updates/deletes and administrative *)
(* application deletes interleave freely.                                  *)
(***************************************************************************)
EXTENDS Integers, Sequences, FiniteSets, TLC

(* ---------------------------------------------------------------------- *)
(* Bounds                                                                  *)
(* ---------------------------------------------------------------------- *)
\* number of infrastructure faults (database error, failed upload, parse,
\* mail send or unlink) injected in one behaviour
MaxFaults == 1

\* the applyForJob requests of a behaviour: two, which may overlap or follow
\* one another
Runs == {"r1", "r2"}
\* job identifiers (job_id) of the postings
Jobs == {"J1"}
\* authenticated candidates
Candidates == {"c1", "c2"}

(* ---------------------------------------------------------------------- *)
(* Program constants                                                       *)
(* ---------------------------------------------------------------------- *)
\* HR is notified when match_score >= 80
HRNotifyThreshold == 80
\* CHECK (match_score >= 0 AND match_score <= 100)
MatchScoreMax == 100
\* generateFallbackScore keeps at most five skills per list (slice(0, 5))
FallbackSliceLen == 5

(* ---------------------------------------------------------------------- *)
(* Plain helpers                                                           *)
(* ---------------------------------------------------------------------- *)
Min(a, b) == IF a < b THEN a ELSE b
Max(a, b) == IF a > b THEN a ELSE b

(* ---------------------------------------------------------------------- *)
(* JavaScript values of the JSON payloads the services receive.  A value   *)
(* carries its type t, and its content as a number n (in hundredths, so    *)
(* that 0.75 is 75 and 80 is 8000), a string s or an array a of strings.   *)
(* ---------------------------------------------------------------------- *)
Undefined == [t |-> "undefined", n |-> 0, s |-> "", a |-> << >>]
Null      == [t |-> "null", n |-> 0, s |-> "", a |-> << >>]
NaN       == [t |-> "NaN", n |-> 0, s |-> "", a |-> << >>]
Num(h)    == [t |-> "number", n |-> h, s |-> "", a |-> << >>]
Str(x)    == [t |-> "string", n |-> 0, s |-> x, a |-> << >>]
Arr(q)    == [t |-> "array", n |-> 0, s |-> "", a |-> q]
\* a nested object; the members the code reads are given next to it
Obj       == [t |-> "object", n |-> 0, s |-> "", a |-> << >>]

\* ToBoolean(v)
Truthy(v) ==
  CASE v.t = "number" -> v.n # 0
    [] v.t = "string" -> v.s # ""
    [] v.t \in {"array", "object"} -> TRUE
    [] OTHER -> FALSE

\* a || b
Or(a, b) == IF Truthy(a) THEN a ELSE b

\* Array.isArray(v)
IsArray(v) == v.t = "array"

\* the number a numeric string denotes, in hundredths; NaN when it has no
\* numeric prefix
StringToNumber(x) ==
  CASE x = "85"   -> Num(8500)
    [] x = "120"  -> Num(12000)
    [] x = "0.75" -> Num(75)
    [] x = "1.5"  -> Num(150)
    [] OTHER      -> NaN

\* truncation toward zero of a number of hundredths, in hundredths
Trunc(h) == IF h >= 0 THEN (h \div 100) * 100 ELSE 0 - (((0 - h) \div 100) * 100)

\* parseInt(v, 10)
parseInt(v) ==
  CASE v.t = "number" -> Num(Trunc(v.n))
    [] v.t = "string" -> (IF StringToNumber(v.s).t = "number"
                            THEN Num(Trunc(StringToNumber(v.s).n)) ELSE NaN)
    [] OTHER -> NaN

\* parseFloat(v)
parseFloat(v) ==
  CASE v.t = "number" -> v
    [] v.t = "string" -> StringToNumber(v.s)
    [] OTHER -> NaN

(* ---------------------------------------------------------------------- *)
(* Scoring service (services/atsScoring.service.js)                        *)
(* Texts are modelled by the set of vocabulary words written in them;      *)
(* String.includes is substring search, so a text that mentions            *)
(* "javascript" also includes "java".                                      *)
(* ---------------------------------------------------------------------- *)
commonSkills ==
  << "javascript", "python", "java", "react", "node.js", "sql", "aws",
     "docker", "kubernetes", "git", "agile", "rest api", "mongodb" >>

\* text.includes(skill)
Includes(text, skill) ==
  \/ skill \in text
  \/ skill = "java" /\ "javascript" \in text

\* Math.round(x / y * 100) for naturals x, y with y > 0
RoundPercent(x, y) == (200 * x + y) \div (2 * y)

Slice_All(s, n) == s

\* array.slice(0, n)
Slice(s, n) == SubSeq(s, 1, Min(n, Len(s)))

generateFallbackScore(resumeText, jobText) ==
  LET foundSkills   == SelectSeq(commonSkills,
                         LAMBDA s : Includes(resumeText, s) /\ Includes(jobText, s))
      missingSkills == SelectSeq(commonSkills,
                         LAMBDA s : Includes(jobText, s) /\ ~Includes(resumeText, s))
      inJob         == SelectSeq(commonSkills, LAMBDA s : Includes(jobText, s))
      matchScore    == Min(100, RoundPercent(Len(foundSkills), Max(Len(inJob), 1)))
  IN  [ match_score           |-> matchScore,
        shortlist_probability |-> matchScore,   \* in hundredths: matchScore / 100
        salary_range          |-> [min |-> 60000, max |-> 100000],
        missing_skills        |-> Slice(missingSkills, FallbackSliceLen),
        strong_skills         |-> Slice(foundSkills, FallbackSliceLen),
        recommendation        |-> "Fallback scoring used - manual review recommended",
        key_highlights        |-> << "Automated scoring unavailable" >>,
        areas_of_concern      |-> << "LLM scoring service unavailable" >> ]

\* The JSON object of a reply of the upstream model: parsed.match_score,
\* parsed.shortlist_probability, parsed.salary_range?.min and ?.max, and the
\* other members (recommendation is a string or absent).
GeminiJson(matchScore, probability) ==
  [ match_score           |-> matchScore,
    shortlist_probability |-> probability,
    salary_min            |-> Num(8000000),
    salary_max            |-> Num(12000000),
    missing_skills        |-> Arr(<< "docker" >>),
    strong_skills         |-> Arr(<< "sql" >>),
    recommendation        |-> Str("Strong candidate"),
    key_highlights        |-> Arr(<< "backend experience" >>),
    areas_of_concern      |-> Arr(<< "no docker" >>) ]

\* parseGeminiResponse, from JSON.parse on: match_score and the salary
\* bounds are whole numbers, shortlist_probability stays in hundredths
parseGeminiResponse(parsed) ==
  [ match_score           |-> Or(parseInt(parsed.match_score), Num(0)).n \div 100,
    shortlist_probability |-> Or(parseFloat(parsed.shortlist_probability), Num(0)).n,
    salary_range          |-> [min |-> Or(parseInt(parsed.salary_min), Num(0)).n \div 100,
                               max |-> Or(parseInt(parsed.salary_max), Num(0)).n \div 100],
    missing_skills        |-> IF IsArray(parsed.missing_skills)
                                THEN parsed.missing_skills.a ELSE << >>,
    strong_skills         |-> IF IsArray(parsed.strong_skills)
                                THEN parsed.strong_skills.a ELSE << >>,
    recommendation        |-> Or(parsed.recommendation, Str("")).s,
    key_highlights        |-> IF IsArray(parsed.key_highlights)
                                THEN parsed.key_highlights.a ELSE << >>,
    areas_of_concern      |-> IF IsArray(parsed.areas_of_concern)
                                THEN parsed.areas_of_concern.a ELSE << >> ]

\* What parseGeminiResponse returns for a reply whose match_score is the
\* number score (shortlist_probability 0.75).
GeminiVerdict(score) == parseGeminiResponse(GeminiJson(Num(score * 100), Num(75)))

\* match_score values of well-formed upstream replies (150: the model ignored
\* the 0-100 instruction; parseGeminiResponse does not clamp)
GeminiScores == {79, 80, 150}

\* Ways model.generateContent / parseGeminiResponse fail
GeminiFailures == {"timeout", "malformed"}

\* Upstream outcomes: a well-formed JSON reply, or a failure
GeminiReplies ==
  {[kind |-> "json", parsed |-> GeminiJson(Num(n * 100), Num(75))] : n \in GeminiScores}
    \cup {[kind |-> k, parsed |-> GeminiJson(Undefined, Undefined)] : k \in GeminiFailures}

\* calculateATSScore: the parsed reply, or the fallback on any failure
calculateATSScore(parsedResume, jobDescription, upstream) ==
  IF upstream.kind \in GeminiFailures
    THEN generateFallbackScore(parsedResume, jobDescription)
    ELSE parseGeminiResponse(upstream.parsed)

NoVerdict ==
  [ match_score           |-> 0,
    shortlist_probability |-> 0,
    salary_range          |-> [min |-> 0, max |-> 0],
    missing_skills        |-> << >>,
    strong_skills         |-> << >>,
    recommendation        |-> "",
    key_highlights        |-> << >>,
    areas_of_concern      |-> << >> ]

(* ---------------------------------------------------------------------- *)
(* Resume parser service (services/resumeParser.service.js)                *)
(* The upstream payload is a record of JavaScript values, one field per    *)
(* property path the normaliser reads (social_linkedin is                  *)
(* data.social_links?.linkedin; skills_technical and skills_soft are the   *)
(* members of data.skills when that is an object).  experience and         *)
(* education carry their type and, when arrays, their entries.             *)
(* ---------------------------------------------------------------------- *)
\* an entry of data.experience with no property set
EmptyExperience ==
  [ title |-> Undefined, position |-> Undefined, company |-> Undefined,
    organization |-> Undefined, location |-> Undefined, start_date |-> Undefined,
    from |-> Undefined, end_date |-> Undefined, to |-> Undefined,
    description |-> Undefined, responsibilities |-> Undefined, duration |-> Undefined ]

\* an entry of data.education with no property set
EmptyEducation ==
  [ degree |-> Undefined, qualification |-> Undefined, institution |-> Undefined,
    school |-> Undefined, university |-> Undefined, location |-> Undefined,
    graduation_date |-> Undefined, year |-> Undefined, gpa |-> Undefined ]

\* a parser reply with no property set: {}
EmptyPayload ==
  [ name |-> Undefined, full_name |-> Undefined, email |-> Undefined,
    phone |-> Undefined, phone_number |-> Undefined, location |-> Undefined,
    address |-> Undefined, linkedin |-> Undefined, social_linkedin |-> Undefined,
    portfolio |-> Undefined, website |-> Undefined, summary |-> Undefined,
    objective |-> Undefined,
    experience |-> [t |-> "undefined", items |-> << >>],
    education |-> [t |-> "undefined", items |-> << >>],
    skills |-> Undefined, skills_technical |-> Undefined, skills_soft |-> Undefined,
    technical_skills |-> Undefined, soft_skills |-> Undefined,
    certifications |-> Undefined, languages |-> Undefined,
    total_experience |-> Undefined, years_of_experience |-> Undefined ]

\* data.skills?.member: the member when data.skills is an object
SkillsMember(data, member) == IF data.skills.t = "object" THEN member ELSE Undefined

\* exp => ({title: exp.title || exp.position || '', ...})
NormalizeExperience(exp) ==
  [ title       |-> Or(exp.title, Or(exp.position, Str(""))),
    company     |-> Or(exp.company, Or(exp.organization, Str(""))),
    location    |-> Or(exp.location, Str("")),
    startDate   |-> Or(exp.start_date, Or(exp.from, Str(""))),
    endDate     |-> Or(exp.end_date, Or(exp.to, Str(""))),
    description |-> Or(exp.description, Or(exp.responsibilities, Str(""))),
    duration    |-> Or(exp.duration, Str("")) ]

\* edu => ({degree: edu.degree || edu.qualification || '', ...})
NormalizeEducation(edu) ==
  [ degree         |-> Or(edu.degree, Or(edu.qualification, Str(""))),
    institution    |-> Or(edu.institution, Or(edu.school, Or(edu.university, Str("")))),
    location       |-> Or(edu.location, Str("")),
    graduationDate |-> Or(edu.graduation_date, Or(edu.year, Str(""))),
    gpa            |-> Or(edu.gpa, Str("")) ]

\* a personalInfo.name that reads data.name only
PersonName_NameOnly(data) == Or(data.name, Str(""))

\* name: data.name || data.full_name || ''
PersonName(data) == Or(data.name, Or(data.full_name, Str("")))

normalizeParserResponse(data) ==
  [ personalInfo |->
      [ name      |-> PersonName(data),
        email     |-> Or(data.email, Str("")),
        phone     |-> Or(data.phone, Or(data.phone_number, Str(""))),
        location  |-> Or(data.location, Or(data.address, Str(""))),
        linkedin  |-> Or(data.linkedin, Or(data.social_linkedin, Str(""))),
        portfolio |-> Or(data.portfolio, Or(data.website, Str(""))) ],
    summary    |-> Or(data.summary, Or(data.objective, Str(""))),
    experience |-> IF data.experience.t = "array"
                     THEN [t |-> "array",
                           items |-> [i \in DOMAIN data.experience.items |->
                                        NormalizeExperience(data.experience.items[i])]]
                     ELSE [t |-> "array", items |-> << >>],
    education  |-> IF data.education.t = "array"
                     THEN [t |-> "array",
                           items |-> [i \in DOMAIN data.education.items |->
                                        NormalizeEducation(data.education.items[i])]]
                     ELSE [t |-> "array", items |-> << >>],
    skills |->
      [ technical |-> Or(SkillsMember(data, data.skills_technical),
                         Or(data.technical_skills, Arr(<< >>))),
        soft      |-> Or(SkillsMember(data, data.skills_soft),
                         Or(data.soft_skills, Arr(<< >>))),
        all       |-> Or(data.skills, Arr(<< >>)) ],
    certifications  |-> IF IsArray(data.certifications) THEN data.certifications
                                                        ELSE Arr(<< >>),
    languages       |-> IF IsArray(data.languages) THEN data.languages ELSE Arr(<< >>),
    totalExperience |-> Or(data.total_experience, Or(data.years_of_experience, Str(""))),
    rawData         |-> data ]

(* ---------------------------------------------------------------------- *)
(* Email service (services/email.service.js)                               *)
(* A call either returns {sent} or throws.                                 *)
(* ---------------------------------------------------------------------- *)
Returned(sent) == [outcome |-> "returned", sent |-> sent]
Thrown == [outcome |-> "thrown", sent |-> FALSE]

\* sendHRNotification: no address -> {sent: false}; a transport error is
\* caught, logged and thrown again as 'Email notification failed'
sendHRNotification(hrEmail, transportOk) ==
  IF ~Truthy(hrEmail) THEN Returned(FALSE)
  ELSE IF transportOk THEN Returned(TRUE)
  ELSE Thrown

\* sendCandidateConfirmation: no address -> {sent: false}; a transport
\* error is caught and reported as {sent: false}
sendCandidateConfirmation(candidateEmail, email, transportOk) ==
  IF ~Truthy(Or(candidateEmail, email)) THEN Returned(FALSE)
  ELSE IF transportOk THEN Returned(TRUE)
  ELSE Returned(FALSE)

(* ---------------------------------------------------------------------- *)
(* Inputs                                                                  *)
(* ---------------------------------------------------------------------- *)
\* description text of each job (set when the job is created)
JobText(j) == {"javascript", "sql"}

\* text of the resume each candidate uploads (parsed_data, serialised)
ResumeText(c) == IF c = "c1" THEN {"javascript", "sql"} ELSE {"sql"}

\* jobs.hr_email of each job (NOT NULL, set when the job is created)
HrEmail(j) == Str("hr@corp.example")

\* req.user.email of each candidate
CandidateEmail(c) == Str("candidate@mail.example")

JobStatuses == {"active", "closed", "draft"}


(* ---------------------------------------------------------------------- *)
(* State                                                                   *)
(* ---------------------------------------------------------------------- *)
VARIABLES
  jobs,        \* jobs table: status of each job_id ("deleted" = no such row)
  resumes,     \* resumes table: set of rows [id, job_id, candidate_user_id]
  scores,      \* ats_scores table: set of rows
  resumeSeq,   \* last value of the resumes.id BIGSERIAL sequence
  scoreSeq,    \* last value of the ats_scores.id BIGSERIAL sequence
  run,         \* local state of each applyForJob invocation
  cloud,       \* number of objects held by the object store
  succeeded,   \* history: (candidate, job) pairs of runs that returned 201
  faults,      \* number of infrastructure faults injected so far
  svc,         \* last call of a service function: its name, argument and result
  profiles,    \* users_profiles table: role and status of each user
  tokens,      \* users holding an access token that Supabase Auth accepts
  http,        \* last request to a protected route and how it was answered
  hrRequests,  \* hr_requests table: user_id and status of each request id
  review,      \* local state of each approve / reject call of an administrator
  roleEdited   \* history: users whose role was set through PUT /users/:userId/role

\* state of the service calls and of the API in front of the handlers
\* state of the HR request review
hrVars == << hrRequests, review, roleEdited >>

apiVars == << svc, profiles, tokens, http, hrRequests, review, roleEdited >>

\* state of the application pipeline
pipelineVars == << jobs, resumes, scores, resumeSeq, scoreSeq, run, cloud,
                   succeeded, faults >>

vars == << jobs, resumes, scores, resumeSeq, scoreSeq, run, cloud,
           succeeded, faults, svc, profiles, tokens, http,
           hrRequests, review, roleEdited >>

\* values the two BIGSERIAL sequences can take: one per insert attempt
Ids == 1 .. Cardinality(Runs)

\* null job row
NoJob == [job_id |-> "", status |-> "null", description |-> {}]

\* the job variable before getJobByJobId has returned
UnsetJob == [job_id |-> "", status |-> "undefined", description |-> {}]

\* res before the handler has answered
NoResponse == [status |-> 0, error |-> "", data |-> << >>]

\* jobsModel.getJobByJobId: the row, or null when no row has this job_id
getJobByJobId(jobId) ==
  IF jobs[jobId] \in JobStatuses
    THEN [job_id |-> jobId, status |-> jobs[jobId], description |-> JobText(jobId)]
    ELSE NoJob

\* a resumes row of the pair exists (used by the history fields)
HasResume(userId, jobId) ==
  \E x \in resumes : x.candidate_user_id = userId /\ x.job_id = jobId

\* a finished run left a resumes row of the pair without an ats_scores row
HasOrphan(userId, jobId) ==
  \E x \in resumes :
    /\ x.candidate_user_id = userId /\ x.job_id = jobId
    /\ ~ \E s \in scores : s.resume_id = x.id
    /\ ~ \E r \in Runs : run[r].resume = x.id

\* a lookup that never finds the row
getApplicationByUserAndJob_Never(userId, jobId) == FALSE

\* a lookup that finds only applications that have been scored
getApplicationByUserAndJob_ScoredOnly(userId, jobId) ==
  \E x \in resumes :
    /\ x.candidate_user_id = userId /\ x.job_id = jobId
    /\ \E s \in scores : s.resume_id = x.id

\* atsModel.getApplicationByUserAndJob: is there a resumes row for the pair
getApplicationByUserAndJob(userId, jobId) ==
  \E x \in resumes : x.candidate_user_id = userId /\ x.job_id = jobId

\* the index without its uniqueness
UniqueApplicationOk_NoIndex(userId, jobId) == TRUE

\* idx_resumes_unique_application: may a row for this pair be inserted
UniqueApplicationOk(userId, jobId) ==
  ~ \E x \in resumes : x.candidate_user_id = userId /\ x.job_id = jobId

\* ats_scores CHECK constraints and the resume_id foreign key
ScoreRowOk(resumeId, verdict) ==
  /\ \E x \in resumes : x.id = resumeId
  /\ verdict.match_score >= 0 /\ verdict.match_score <= MatchScoreMax
  /\ verdict.shortlist_probability >= 0 /\ verdict.shortlist_probability <= 100

\* obj.key in JavaScript: the value, or undefined when obj has no such key
Get(obj, key) ==
  IF key \in DOMAIN obj THEN [def |-> TRUE, v |-> obj[key]] ELSE [def |-> FALSE]

\* HTTP status class of a response
Kind(status) ==
  IF status = 201 THEN "ok"
  ELSE IF status >= 400 /\ status < 500 THEN "validation"
  ELSE IF status >= 500 THEN "infrastructure"
  ELSE "none"

IdleRun ==
  [ pc           |-> "idle",
    jobId        |-> "J1",
    cand         |-> "c1",
    filePath     |-> FALSE,     \* uploadedFilePath is set
    tmp          |-> "none",    \* the staged upload: none / staged / removed
    unlinked     |-> FALSE,     \* fs.unlink was called
    job          |-> UnsetJob,
    uploaded     |-> FALSE,     \* resumeUrl obtained
    parsedData   |-> {},
    resume       |-> 0,         \* resume.id, 0 = not created
    insert       |-> "none",    \* outcome of createResume
    scoringResult|-> NoVerdict,
    fallback     |-> FALSE,     \* the verdict came from generateFallbackScore
    atsScore     |-> 0,         \* atsScore.id, 0 = not created
    emailSent    |-> FALSE,
    calls        |-> {},        \* gateways invoked
    mails        |-> {},        \* emails handed to the relay
    res          |-> NoResponse,
    afterSuccess |-> FALSE,     \* history: started after a 201 for the pair
    resumeGone   |-> FALSE,     \* history: pair had no resume at some time in the run
    lookupFailed |-> FALSE,     \* history: a lookup of the validation threw
    cause        |-> "",        \* history: what made the run fail
    afterOrphan  |-> FALSE ]    \* history: started when the pair had an unscored resume

\* no service function has been called
NoCall == [fn |-> "none", arg |-> << >>, ret |-> << >>]

\* no request has been made
NoRequest == [route |-> "none", user |-> "", applicationId |-> 0, status |-> 0,
              reached |-> FALSE, userStatus |-> ""]

\* registered users and the role each registered with
Users == Candidates \cup {"h1", "h2", "a1"}
RoleOf(u) ==
  CASE u \in Candidates -> "candidate"
    [] u = "h1" -> "hr_pending"
    [] u = "h2" -> "hr_approved"
    [] OTHER -> "admin"

\* administrators' calls of approve / reject that can be in progress at once
Reviews == {"v1", "v2"}

\* ids of the hr_requests rows; id 3 has no row
RequestIds == {1, 2}
RequestParams == RequestIds \cup {3}

\* h1 registered as HR and waits for review; h2's request was approved
InitialRequests ==
  [q \in RequestIds |->
     IF q = 1 THEN [user_id |-> "h1", status |-> "pending"]
              ELSE [user_id |-> "h2", status |-> "approved"]]

NoRequestRow == [user_id |-> "", status |-> "null"]

IdleReview == [pc |-> "idle", kind |-> "", id |-> 0, request |-> NoRequestRow, error |-> ""]

\* every user is registered and active, nobody is logged in
InitApi ==
  /\ svc = NoCall
  /\ profiles = [u \in Users |-> [role |-> RoleOf(u), status |-> "active"]]
  /\ tokens = {}
  /\ http = NoRequest
  /\ hrRequests = InitialRequests
  /\ review = [v \in Reviews |-> IdleReview]
  /\ roleEdited = {}

\* The posting has been created (createJob inserts it with status active);
\* nobody has applied yet.
Init ==
  /\ jobs = [j \in Jobs |-> "active"]
  /\ resumes = {}
  /\ scores = {}
  /\ resumeSeq = 0
  /\ scoreSeq = 0
  /\ run = [r \in Runs |-> IdleRun]
  /\ cloud = 0
  /\ succeeded = {}
  /\ faults = 0
  /\ InitApi

Terminated(r) == run[r].pc \in {"done", "failed"}

\* res.status(code).json({success: false, error})
Fail(r, code, msg) ==
  [run[r] EXCEPT !.pc = "failed", !.res = [status |-> code, error |-> msg, data |-> << >>]]

(* ---------------------------------------------------------------------- *)
(* Job management (HR / admin)                                             *)
(* ---------------------------------------------------------------------- *)
\* updateJob: UPDATE jobs SET ...updates WHERE job_id = j
UpdateJob(j, st) ==
  /\ jobs[j] \in JobStatuses
  /\ jobs[j] # st
  /\ jobs' = [jobs EXCEPT ![j] = st]
  /\ UNCHANGED << apiVars, resumes, scores, resumeSeq, scoreSeq, run, cloud, succeeded, faults >>

\* deleteJob: DELETE FROM jobs WHERE job_id = j (resumes has no foreign key to jobs)
DeleteJob(j) ==
  /\ jobs[j] \in JobStatuses
  /\ jobs' = [jobs EXCEPT ![j] = "deleted"]
  /\ UNCHANGED << apiVars, resumes, scores, resumeSeq, scoreSeq, run, cloud, succeeded, faults >>

(* ---------------------------------------------------------------------- *)
(* Administrative delete                                                   *)
(* ---------------------------------------------------------------------- *)
\* a delete that leaves the ats_scores rows of the resume behind
deleteResume_NoCascade(resumeId) ==
  /\ resumes' = {x \in resumes : x.id # resumeId}
  /\ scores' = scores

\* atsModel.deleteResume: DELETE FROM resumes WHERE id = resumeId; the
\* ats_scores rows of the resume go with it (ON DELETE CASCADE)
deleteResume(resumeId) ==
  /\ resumes' = {x \in resumes : x.id # resumeId}
  /\ scores' = {s \in scores : s.resume_id # resumeId}

\* deleteApplication: passes req.params.applicationId to deleteResume
DeleteApplication(applicationId) ==
  /\ deleteResume(applicationId)
  /\ run' = [r \in Runs |->
              IF \E x \in resumes : /\ x.id = applicationId
                                    /\ x.job_id = run[r].jobId
                                    /\ x.candidate_user_id = run[r].cand
                THEN [run[r] EXCEPT !.resumeGone = TRUE]
                ELSE run[r]]
  /\ UNCHANGED << apiVars, jobs, resumeSeq, scoreSeq, cloud, succeeded, faults >>

(* ---------------------------------------------------------------------- *)
(* applyForJob, one action per await                                       *)
(* ---------------------------------------------------------------------- *)
\* an operation of the environment succeeds (ok), or fails as one more fault
Fault(ok) ==
  IF ok THEN faults' = faults
        ELSE faults < MaxFaults /\ faults' = faults + 1

\* requests are numbered in their order of arrival
NextRequest == IF run["r1"].pc = "idle" THEN "r1"
               ELSE IF run["r2"].pc = "idle" THEN "r2" ELSE "none"

\* The request arrives: multer has staged the file (or there is none), the
\* handler runs up to its first await (jobsModel.getJobByJobId).
Submit(r, j, c, hasFile) ==
  /\ r = NextRequest
  /\ LET fresh == [IdleRun EXCEPT
                     !.jobId = j,
                     !.cand = c,
                     !.afterSuccess = (<< c, j >> \in succeeded),
                     !.afterOrphan = HasOrphan(c, j),
                     !.resumeGone = ~HasResume(c, j)]
     IN  run' = [run EXCEPT ![r] =
                   IF hasFile
                     THEN [fresh EXCEPT !.pc = "getJob", !.filePath = TRUE, !.tmp = "staged"]
                     ELSE [fresh EXCEPT !.pc = "failed", !.cause = "file",
                                        !.res = [status |-> 400,
                                                 error |-> "No resume file uploaded",
                                                 data |-> << >>]]]
  /\ UNCHANGED << apiVars, jobs, resumes, scores, resumeSeq, scoreSeq, cloud, succeeded, faults >>

\* a status test that lets every job through
AcceptsApplications_Always(job) == TRUE

\* job.status !== 'active' rejects the application
AcceptsApplications(job) == job.status = "active"

\* await jobsModel.getJobByJobId(jobId), then the two job checks
GetJob(r, dbOk) ==
  /\ run[r].pc = "getJob"
  /\ LET job == getJobByJobId(run[r].jobId)
     IN  run' = [run EXCEPT ![r] =
           IF ~dbOk
             THEN [run[r] EXCEPT !.pc = "catch", !.lookupFailed = TRUE,
                                 !.cause = "persistence"]
           ELSE IF job = NoJob
             THEN [Fail(r, 404, "Job not found") EXCEPT !.job = job,
                                                        !.cause = "job_missing"]
           ELSE IF ~AcceptsApplications(job)
             THEN [Fail(r, 400, "This job is no longer accepting applications")
                     EXCEPT !.job = job, !.cause = "job_inactive"]
           ELSE [run[r] EXCEPT !.pc = "checkDup", !.job = job]]
  /\ Fault(dbOk)
  /\ UNCHANGED << apiVars, jobs, resumes, scores, resumeSeq, scoreSeq, cloud, succeeded >>

\* await atsModel.getApplicationByUserAndJob(candidateUserId, jobId)
CheckDuplicate(r, dbOk) ==
  /\ run[r].pc = "checkDup"
  /\ run' = [run EXCEPT ![r] =
       IF ~dbOk
         THEN [run[r] EXCEPT !.pc = "catch", !.lookupFailed = TRUE,
                             !.cause = "persistence"]
       ELSE IF getApplicationByUserAndJob(run[r].cand, run[r].jobId)
         THEN [Fail(r, 400, "You have already applied for this job")
                 EXCEPT !.cause = "duplicate"]
       ELSE [run[r] EXCEPT !.pc = "upload"]]
  /\ Fault(dbOk)
  /\ UNCHANGED << apiVars, jobs, resumes, scores, resumeSeq, scoreSeq, cloud, succeeded >>

\* Step 1: await uploadFile(uploadedFilePath)
Upload(r, ok) ==
  /\ run[r].pc = "upload"
  /\ run' = [run EXCEPT ![r] =
       IF ok THEN [run[r] EXCEPT !.pc = "parse", !.uploaded = TRUE,
                                 !.calls = @ \cup {"upload"}]
             ELSE [run[r] EXCEPT !.pc = "catch", !.calls = @ \cup {"upload"},
                                 !.cause = "upload"]]
  /\ cloud' = IF ok THEN cloud + 1 ELSE cloud
  /\ Fault(ok)
  /\ UNCHANGED << apiVars, jobs, resumes, scores, resumeSeq, scoreSeq, succeeded >>

\* a parseResume that swallows its error and returns an empty resume
ParseThrew_Continues(x) == [x EXCEPT !.pc = "createResume", !.cause = "parse"]

\* parseResume rethrows ('Failed to parse resume: ...'); the throw lands in
\* the outer catch of applyForJob
ParseThrew(x) == [x EXCEPT !.pc = "catch", !.cause = "parse"]

\* Step 2: await parseResume(resumeUrl): the normalised resume, or a throw
\* on a transport failure, timeout or non-2xx reply
Parse(r, ok) ==
  /\ run[r].pc = "parse"
  /\ run' = [run EXCEPT ![r] =
       IF ok THEN [run[r] EXCEPT !.pc = "createResume",
                                 !.parsedData = ResumeText(run[r].cand),
                                 !.calls = @ \cup {"parse"}]
             ELSE ParseThrew([run[r] EXCEPT !.calls = @ \cup {"parse"}])]
  /\ Fault(ok)
  /\ UNCHANGED << apiVars, jobs, resumes, scores, resumeSeq, scoreSeq, cloud, succeeded >>

\* a createResume that reports the rejection without throwing
InsertRejected_Continues(x) ==
  [x EXCEPT !.pc = "score", !.insert = "duplicate", !.cause = "persistence"]

\* createResume throws on the unique violation; the throw lands in the
\* outer catch of applyForJob
InsertRejected(x) ==
  [x EXCEPT !.pc = "catch", !.insert = "duplicate", !.cause = "persistence"]

\* Step 3: await atsModel.createResume(...).  A row the unique index rejects
\* has already taken its id from the sequence.
CreateResume(r, dbOk) ==
  /\ run[r].pc = "createResume"
  /\ IF ~dbOk THEN
       /\ run' = [run EXCEPT ![r] = [run[r] EXCEPT !.pc = "catch", !.insert = "error",
                                                   !.cause = "persistence"]]
       /\ UNCHANGED << resumes, resumeSeq >>
     ELSE IF ~UniqueApplicationOk(run[r].cand, run[r].jobId) THEN
       /\ run' = [run EXCEPT ![r] = InsertRejected(run[r])]
       /\ resumeSeq' = resumeSeq + 1
       /\ UNCHANGED resumes
     ELSE
       /\ resumeSeq' = resumeSeq + 1
       /\ resumes' = resumes \cup
            {[id |-> resumeSeq + 1, job_id |-> run[r].jobId,
              candidate_user_id |-> run[r].cand]}
       /\ run' = [run EXCEPT ![r] = [run[r] EXCEPT !.pc = "score", !.insert = "ok",
                                                   !.resume = resumeSeq + 1]]
  /\ Fault(dbOk)
  /\ UNCHANGED << apiVars, jobs, scores, scoreSeq, cloud, succeeded >>

\* Step 4: await calculateATSScore(parsedData, job.description)
Score(r, upstream) ==
  /\ run[r].pc = "score"
  /\ run' = [run EXCEPT ![r] =
       [run[r] EXCEPT !.pc = "createScore",
                      !.scoringResult =
                         calculateATSScore(run[r].parsedData, run[r].job.description, upstream),
                      !.fallback = (upstream.kind \in GeminiFailures),
                      !.calls = @ \cup {"score"}]]
  /\ UNCHANGED << apiVars, jobs, resumes, scores, resumeSeq, scoreSeq, cloud, succeeded, faults >>

\* the ats_scores row createATSScore inserts (email_sent: scoreData.emailSent || false)
ScoreRow(id, resumeId, jobId, v) ==
  [ id |-> id, resume_id |-> resumeId, job_id |-> jobId,
    match_score |-> v.match_score,
    shortlist_probability |-> v.shortlist_probability,
    salary_range |-> v.salary_range,
    missing_skills |-> v.missing_skills,
    strong_skills |-> v.strong_skills,
    recommendation |-> v.recommendation,
    key_highlights |-> v.key_highlights,
    areas_of_concern |-> v.areas_of_concern,
    email_sent |-> FALSE ]

\* a threshold test that excludes the threshold itself
NotifiesHR_Above(matchScore) == matchScore > HRNotifyThreshold

\* if (scoringResult.match_score >= 80)
NotifiesHR(matchScore) == matchScore >= HRNotifyThreshold

\* Step 5: await atsModel.createATSScore(...), then the threshold test of step 6
CreateScore(r, dbOk) ==
  /\ run[r].pc = "createScore"
  /\ IF ~dbOk THEN
       /\ run' = [run EXCEPT ![r] = [run[r] EXCEPT !.pc = "catch",
                                                   !.cause = "persistence"]]
       /\ UNCHANGED << scores, scoreSeq >>
     ELSE IF ~ScoreRowOk(run[r].resume, run[r].scoringResult) THEN
       /\ run' = [run EXCEPT ![r] = [run[r] EXCEPT !.pc = "catch",
                                                   !.cause = "persistence"]]
       /\ scoreSeq' = scoreSeq + 1
       /\ UNCHANGED scores
     ELSE
       /\ scoreSeq' = scoreSeq + 1
       /\ scores' = scores \cup
            {ScoreRow(scoreSeq + 1, run[r].resume, run[r].job.job_id, run[r].scoringResult)}
       /\ run' = [run EXCEPT ![r] =
            [run[r] EXCEPT !.atsScore = scoreSeq + 1,
                           !.pc = IF NotifiesHR(run[r].scoringResult.match_score)
                                    THEN "sendHR" ELSE "sendCand"]]
  /\ Fault(dbOk)
  /\ UNCHANGED << apiVars, jobs, resumes, resumeSeq, cloud, succeeded >>

\* an inner try block that lets the email error through to the outer catch
NotifyFailed_Propagates(x) == [x EXCEPT !.pc = "catch"]

\* catch (emailError): logged, the rest of the try block is skipped
NotifyFailed(x) == [x EXCEPT !.pc = "cleanup"]

\* Step 6a: await sendHRNotification(...); a throw goes to the inner catch
SendHR(r, ok) ==
  /\ run[r].pc = "sendHR"
  /\ LET out    == sendHRNotification(HrEmail(run[r].jobId), ok)
         called == [run[r] EXCEPT !.calls = @ \cup {"hrmail"}]
     IN  run' = [run EXCEPT ![r] =
           IF out.outcome = "thrown" THEN NotifyFailed(called)
           ELSE [called EXCEPT !.pc = "sendCand",
                               !.mails = IF out.sent THEN @ \cup {"hr"} ELSE @]]
  /\ Fault(ok)
  /\ UNCHANGED << apiVars, jobs, resumes, scores, resumeSeq, scoreSeq, cloud, succeeded >>

\* Step 6b: await sendCandidateConfirmation(...); it never throws and its
\* {sent} result is not read; then emailSent = true
SendCandidate(r, ok) ==
  /\ run[r].pc = "sendCand"
  /\ LET out == sendCandidateConfirmation(CandidateEmail(run[r].cand), Undefined, ok)
     IN  run' = [run EXCEPT ![r] =
           [run[r] EXCEPT !.pc = "updateFlag", !.emailSent = TRUE,
                          !.calls = @ \cup {"candmail"},
                          !.mails = IF out.sent THEN @ \cup {"cand"} ELSE @]]
  /\ Fault(ok)
  /\ UNCHANGED << apiVars, jobs, resumes, scores, resumeSeq, scoreSeq, cloud, succeeded >>

\* Step 6c: await atsModel.updateEmailSentStatus(atsScore.id, true); .single()
\* fails when the row is gone; any failure is absorbed by the inner catch
UpdateEmailSent(r, dbOk) ==
  /\ run[r].pc = "updateFlag"
  /\ scores' = IF dbOk
                 THEN {IF s.id = run[r].atsScore THEN [s EXCEPT !.email_sent = TRUE] ELSE s
                        : s \in scores}
                 ELSE scores
  /\ run' = [run EXCEPT ![r] = [run[r] EXCEPT !.pc = "cleanup"]]
  /\ Fault(dbOk)
  /\ UNCHANGED << apiVars, jobs, resumes, resumeSeq, scoreSeq, cloud, succeeded >>

\* the data object of the 201 response (step 8)
ResponseData(x) ==
  [ applicationId        |-> x.atsScore,
    resumeId             |-> x.resume,
    jobId                |-> x.job.job_id,
    matchScore           |-> Get(x.scoringResult, "matchScore"),
    shortlistProbability |-> Get(x.scoringResult, "shortlistProbability"),
    salaryRange          |-> Get(x.scoringResult, "salaryRange"),
    missingSkills        |-> Get(x.scoringResult, "missingSkills"),
    strongSkills         |-> Get(x.scoringResult, "strongSkills"),
    recommendation       |-> Get(x.scoringResult, "recommendation"),
    keyHighlights        |-> Get(x.scoringResult, "keyHighlights"),
    areasOfConcern       |-> Get(x.scoringResult, "areasOfConcern"),
    emailSent            |-> x.emailSent,
    resumeUrl            |-> x.uploaded ]

\* an unlink whose error escapes to the outer catch
UnlinkFailed_Throws(x) == [x EXCEPT !.pc = "catch", !.unlinked = TRUE]

\* catch (cleanupError): logged only, the handler goes on to the response
UnlinkFailed(x) ==
  [x EXCEPT !.pc = "done", !.unlinked = TRUE,
            !.res = [status |-> 201, error |-> "", data |-> ResponseData(x)]]

\* Step 7 and 8: await fs.unlink(uploadedFilePath) (failure logged only),
\* then res.status(201)
CleanUp(r, ok) ==
  /\ run[r].pc = "cleanup"
  /\ run' = [run EXCEPT ![r] =
       IF ok THEN [run[r] EXCEPT !.pc = "done", !.unlinked = TRUE,
                                 !.tmp = "removed",
                                 !.res = [status |-> 201, error |-> "",
                                          data |-> ResponseData(run[r])]]
             ELSE UnlinkFailed(run[r])]
  /\ succeeded' = IF run'[r].pc = "done"
                    THEN succeeded \cup {<< run[r].cand, run[r].jobId >>}
                    ELSE succeeded
  /\ Fault(ok)
  /\ UNCHANGED << apiVars, jobs, resumes, scores, resumeSeq, scoreSeq, cloud >>

\* the outer catch: unlink the staged file if uploadedFilePath is set, then 500
Catch(r, ok) ==
  /\ run[r].pc = "catch"
  /\ run' = [run EXCEPT ![r] =
       [Fail(r, 500, "Failed to process application") EXCEPT
          !.unlinked = run[r].filePath,
          !.tmp = IF run[r].filePath /\ ok THEN "removed" ELSE @]]
  /\ Fault(ok)
  /\ UNCHANGED << apiVars, jobs, resumes, scores, resumeSeq, scoreSeq, cloud, succeeded >>

(* ---------------------------------------------------------------------- *)
(* Specification                                                           *)
(* ---------------------------------------------------------------------- *)
\* the response has been sent: the handler's frame is gone
Return(r) ==
  /\ Terminated(r)
  /\ run' = [run EXCEPT ![r] = [IdleRun EXCEPT !.pc = "returned"]]
  /\ UNCHANGED << apiVars, jobs, resumes, scores, resumeSeq, scoreSeq, cloud,
                  succeeded, faults >>

\* no handler is between sending its response and returning
Quiet == \A r \in Runs : ~Terminated(r)

\* Steps that touch nothing but the run's own locals and the outside world
\* (object store, parser, scorer, mail relay, temp file) commute with every
\* step of another run and of the administrators; they are taken as soon as
\* they are enabled, so that runs interleave at their database accesses.
LocalPcs == {"upload", "parse", "score", "sendHR", "sendCand", "cleanup", "catch"}
Settled == \A r \in Runs : ~Terminated(r) /\ run[r].pc \notin LocalPcs

Next ==
  \/ \E r \in Runs : Return(r)
  \/ Settled /\ \E j \in Jobs, st \in JobStatuses : UpdateJob(j, st)
  \/ Settled /\ \E j \in Jobs : DeleteJob(j)
  \/ Settled /\ \E id \in Ids : DeleteApplication(id)
  \/ Settled /\ \E r \in Runs, j \in Jobs, c \in Candidates, f \in BOOLEAN : Submit(r, j, c, f)
  \/ Settled /\ \E r \in Runs, ok \in BOOLEAN : GetJob(r, ok)
  \/ Settled /\ \E r \in Runs, ok \in BOOLEAN : CheckDuplicate(r, ok)
  \/ Quiet /\ \E r \in Runs, ok \in BOOLEAN : Upload(r, ok)
  \/ Quiet /\ \E r \in Runs, ok \in BOOLEAN : Parse(r, ok)
  \/ Settled /\ \E r \in Runs, ok \in BOOLEAN : CreateResume(r, ok)
  \/ Quiet /\ \E r \in Runs, u \in GeminiReplies : Score(r, u)
  \/ Settled /\ \E r \in Runs, ok \in BOOLEAN : CreateScore(r, ok)
  \/ Quiet /\ \E r \in Runs, ok \in BOOLEAN : SendHR(r, ok)
  \/ Quiet /\ \E r \in Runs, ok \in BOOLEAN : SendCandidate(r, ok)
  \/ Settled /\ \E r \in Runs, ok \in BOOLEAN : UpdateEmailSent(r, ok)
  \/ Quiet /\ \E r \in Runs, ok \in BOOLEAN : CleanUp(r, ok)
  \/ Quiet /\ \E r \in Runs, ok \in BOOLEAN : Catch(r, ok)

Spec == Init /\ [][Next]_vars

\* the steps of one applyForJob invocation
RunStep(r) ==
  \/ Return(r)
  \/ Settled /\ \E ok \in BOOLEAN : GetJob(r, ok)
  \/ Settled /\ \E ok \in BOOLEAN : CheckDuplicate(r, ok)
  \/ Quiet /\ \E ok \in BOOLEAN : Upload(r, ok)
  \/ Quiet /\ \E ok \in BOOLEAN : Parse(r, ok)
  \/ Settled /\ \E ok \in BOOLEAN : CreateResume(r, ok)
  \/ Quiet /\ \E u \in GeminiReplies : Score(r, u)
  \/ Settled /\ \E ok \in BOOLEAN : CreateScore(r, ok)
  \/ Quiet /\ \E ok \in BOOLEAN : SendHR(r, ok)
  \/ Quiet /\ \E ok \in BOOLEAN : SendCandidate(r, ok)
  \/ Settled /\ \E ok \in BOOLEAN : UpdateEmailSent(r, ok)
  \/ Quiet /\ \E ok \in BOOLEAN : CleanUp(r, ok)
  \/ Quiet /\ \E ok \in BOOLEAN : Catch(r, ok)

\* Every awaited call of a handler settles (each has a timeout or answers),
\* and the event loop then resumes the handler.
LiveSpec == Spec /\ \A r \in Runs : WF_vars(RunStep(r))

(* ---------------------------------------------------------------------- *)
(* The service functions on their own: each call takes its argument from   *)
(* the replies and payloads below and records the result.                  *)
(* ---------------------------------------------------------------------- *)
\* parsed.match_score of an upstream reply: absent, null, not a number, a
\* numeric string, negative, in range (79.5 is 7950), above 100
MatchScoreValues ==
  { Undefined, Null, Str("high"), Str("85"), Num(0 - 500), Num(0), Num(7900),
    Num(7950), Num(8000), Num(10000), Num(15000) }

\* parsed.shortlist_probability of an upstream reply
ProbabilityValues ==
  { Undefined, Str("likely"), Str("0.75"), Str("1.5"), Num(0 - 10), Num(0),
    Num(75), Num(100), Num(150), Num(8500) }

\* replies of the upstream model, and its failures
UpstreamReplies ==
  {[kind |-> "json", parsed |-> GeminiJson(m, q)] :
       m \in MatchScoreValues, q \in ProbabilityValues}
    \cup {[kind |-> k, parsed |-> GeminiJson(Undefined, Undefined)] : k \in GeminiFailures}

\* values of data.name in a parser reply
NameValues == { Undefined, Null, Str(""), Str("Ann Lee"), Num(700) }

\* data.skills and its companions: absent, a list, a nested object, the
\* flat technical_skills / soft_skills convention, a comma-separated string
SkillsShapes ==
  { [skills |-> Undefined, skills_technical |-> Undefined, skills_soft |-> Undefined,
     technical_skills |-> Undefined, soft_skills |-> Undefined],
    [skills |-> Arr(<< "sql", "react" >>), skills_technical |-> Undefined,
     skills_soft |-> Undefined, technical_skills |-> Undefined, soft_skills |-> Undefined],
    [skills |-> Obj, skills_technical |-> Arr(<< "sql" >>),
     skills_soft |-> Arr(<< "teamwork" >>), technical_skills |-> Undefined,
     soft_skills |-> Undefined],
    [skills |-> Undefined, skills_technical |-> Undefined, skills_soft |-> Undefined,
     technical_skills |-> Arr(<< "sql" >>), soft_skills |-> Arr(<< "teamwork" >>)],
    [skills |-> Str("sql, react"), skills_technical |-> Undefined,
     skills_soft |-> Undefined, technical_skills |-> Undefined, soft_skills |-> Undefined] }

\* data.experience: absent, a string, one entry in either naming convention
ExperienceShapes ==
  { [t |-> "undefined", items |-> << >>],
    [t |-> "string", items |-> << >>],
    [t |-> "array", items |-> << [EmptyExperience EXCEPT !.title = Str("Engineer"),
                                                         !.company = Str("Acme")] >>],
    [t |-> "array", items |-> << [EmptyExperience EXCEPT !.position = Str("Engineer"),
                                                         !.organization = Str("Acme")] >>] }

\* replies of the upstream resume parser
ParserPayloads ==
  { [EmptyPayload EXCEPT !.name = a, !.full_name = b,
                         !.skills = sk.skills,
                         !.skills_technical = sk.skills_technical,
                         !.skills_soft = sk.skills_soft,
                         !.technical_skills = sk.technical_skills,
                         !.soft_skills = sk.soft_skills,
                         !.experience = e] :
      a \in NameValues, b \in {Undefined, Str("Ann Lee")},
      sk \in SkillsShapes, e \in ExperienceShapes }

\* recipient addresses handed to the email service
AddressValues == { Undefined, Str(""), Str("hr@corp.example") }

\* the same reply in the full_name convention
FullNameConvention(data) == [data EXCEPT !.full_name = data.name, !.name = Undefined]

CallNormalize(data) ==
  /\ svc' = [fn |-> "normalizeParserResponse", arg |-> << data >>,
             ret |-> << normalizeParserResponse(data) >>]
  /\ UNCHANGED << pipelineVars, hrVars, profiles, tokens, http >>

\* one reply written in the name convention and in the full_name convention
CallNormalizeBoth(data) ==
  /\ data.full_name = Undefined
  /\ svc' = [fn |-> "normalizeParserResponse twice",
             arg |-> << data, FullNameConvention(data) >>,
             ret |-> << normalizeParserResponse(data),
                        normalizeParserResponse(FullNameConvention(data)) >>]
  /\ UNCHANGED << pipelineVars, hrVars, profiles, tokens, http >>

CallCalculateATSScore(c, j, upstream) ==
  /\ svc' = [fn |-> "calculateATSScore", arg |-> << upstream >>,
             ret |-> << calculateATSScore(ResumeText(c), JobText(j), upstream) >>]
  /\ UNCHANGED << pipelineVars, hrVars, profiles, tokens, http >>

\* texts handed to the fallback scorer: which vocabulary words they contain
FallbackWords == {"javascript", "python", "java", "react", "sql", "aws", "docker"}
FallbackResumeTexts == SUBSET FallbackWords
FallbackJobTexts ==
  { {}, {"javascript", "sql"}, FallbackWords \ {"javascript"}, FallbackWords }

CallGenerateFallbackScore(resumeText, jobText) ==
  /\ svc' = [fn |-> "generateFallbackScore",
             arg |-> << [resumeText |-> resumeText, jobText |-> jobText] >>,
             ret |-> << generateFallbackScore(resumeText, jobText) >>]
  /\ UNCHANGED << pipelineVars, hrVars, profiles, tokens, http >>

CallSendHRNotification(hrEmail, transportOk) ==
  /\ svc' = [fn |-> "sendHRNotification",
             arg |-> << [address |-> hrEmail, transportOk |-> transportOk] >>,
             ret |-> << sendHRNotification(hrEmail, transportOk) >>]
  /\ UNCHANGED << pipelineVars, hrVars, profiles, tokens, http >>

CallSendCandidateConfirmation(candidateEmail, transportOk) ==
  /\ svc' = [fn |-> "sendCandidateConfirmation",
             arg |-> << [address |-> candidateEmail, transportOk |-> transportOk] >>,
             ret |-> << sendCandidateConfirmation(candidateEmail, Undefined, transportOk) >>]
  /\ UNCHANGED << pipelineVars, hrVars, profiles, tokens, http >>

ServiceNext ==
  \/ \E data \in ParserPayloads : CallNormalize(data)
  \/ \E data \in ParserPayloads : CallNormalizeBoth(data)
  \/ \E c \in Candidates, j \in Jobs, u \in UpstreamReplies : CallCalculateATSScore(c, j, u)
  \/ \E rt \in FallbackResumeTexts, jt \in FallbackJobTexts : CallGenerateFallbackScore(rt, jt)
  \/ \E a \in AddressValues, ok \in BOOLEAN : CallSendHRNotification(a, ok)
  \/ \E a \in AddressValues, ok \in BOOLEAN : CallSendCandidateConfirmation(a, ok)

ServiceSpec == Init /\ [][ServiceNext]_vars

(* ---------------------------------------------------------------------- *)
(* Properties                                                              *)
(* ---------------------------------------------------------------------- *)
SamePair(a, b) == run[a].jobId = run[b].jobId /\ run[a].cand = run[b].cand

\* the run's resume row is in the table
ResumeLive(r) == \E x \in resumes : x.id = run[r].resume

\* the run has passed the duplicate pre-check
PassedPreCheck(r) ==
  run[r].pc \in {"upload", "parse", "createResume", "score", "createScore", "sendHR",
                 "sendCand", "updateFlag", "cleanup", "done"}
    \/ run[r].insert # "none"

\* a notification send of the run did not deliver
MailFailed(r) ==
  \/ "hrmail" \in run[r].calls /\ "hr" \notin run[r].mails
  \/ "candmail" \in run[r].calls /\ "cand" \notin run[r].mails

\* C1: in every reachable state, whatever the interleaving of the runs, the
\* resumes table holds at most one row for each (candidate, job) pair.
C1_UniqueSubmission ==
  \A x, y \in resumes :
    (x.candidate_user_id = y.candidate_user_id /\ x.job_id = y.job_id) => x = y

\* Two runs for one pair have both passed the pre-check; one has inserted its
\* row and the other is about to insert.
C1_Witness ==
  \E a, b \in Runs :
    /\ a # b /\ SamePair(a, b)
    /\ run[a].insert = "ok" /\ ResumeLive(a)
    /\ run[b].pc = "createResume"

\* C2 as stated: a run for a pair that started after a 201 for that pair
\* ends with a validation error and has invoked no gateway.
C2_Original ==
  \A r \in Runs :
    (Terminated(r) /\ run[r].afterSuccess) =>
      (Kind(run[r].res.status) = "validation" /\ run[r].calls = {})

\* C2 amended: a run that started after a 201 for its pair, and during which
\* the pair's resume row has existed all along (no administrator deleted
\* it), never gets past the validation: it invokes no gateway, persists
\* nothing, and ends with a validation error, or with a 500 when one of its
\* two lookups itself failed.
C2_LaterSubmitRejected ==
  \A r \in Runs :
    (run[r].afterSuccess /\ ~run[r].resumeGone) =>
      /\ run[r].pc \in {"getJob", "checkDup", "catch", "failed"}
      /\ run[r].calls = {} /\ ~run[r].uploaded
      /\ run[r].resume = 0 /\ run[r].atsScore = 0
      /\ run[r].pc = "catch" => run[r].lookupFailed
      /\ run[r].pc = "failed" =>
           \/ Kind(run[r].res.status) = "validation"
           \/ Kind(run[r].res.status) = "infrastructure" /\ run[r].lookupFailed

\* a run that started after a successful one for its pair was refused as a
\* duplicate
C2_Witness ==
  \E r \in Runs :
    /\ run[r].afterSuccess /\ ~run[r].resumeGone
    /\ run[r].pc = "failed" /\ run[r].res.status = 400
    /\ run[r].res.error = "You have already applied for this job"

C4_SecondInsertRejected ==
  \A a, b \in Runs :
    (a # b /\ SamePair(a, b) /\ PassedPreCheck(a) /\ PassedPreCheck(b)) =>
      /\ ~(run[a].resume # 0 /\ ResumeLive(a) /\ run[b].resume # 0 /\ ResumeLive(b))
      /\ run[b].insert = "duplicate" =>
           /\ run[b].pc \in {"catch", "failed"}
           /\ run[b].pc = "failed" => run[b].res.status = 500
           /\ run[b].resume = 0 /\ run[b].atsScore = 0
           /\ run[b].mails = {}
           /\ run[b].calls \cap {"score", "hrmail", "candmail"} = {}

\* one of two overlapping runs for a pair inserted, the other was rejected
\* by the index and has answered 500
C4_Witness ==
  \E a, b \in Runs :
    /\ a # b /\ SamePair(a, b)
    /\ run[a].insert = "ok" /\ ResumeLive(a)
    /\ run[b].insert = "duplicate" /\ run[b].pc = "failed" /\ run[b].res.status = 500

\* JavaScript value v, as a property read yields it
Def(v) == [def |-> TRUE, v |-> v]

\* C5 as stated: a run that was scored by the fallback (the upstream scorer
\* failed) and reached Done returns 201 with a matchScore in [0,100], a
\* shortlistProbability in [0,1] (hundredths 0..100) and the recommendation
\* that flags fallback scoring.
C5_Original ==
  \A r \in Runs :
    (run[r].pc = "done" /\ run[r].fallback) =>
      /\ run[r].res.status = 201
      /\ run[r].res.data.matchScore.def
      /\ run[r].res.data.matchScore.v \in 0 .. 100
      /\ run[r].res.data.shortlistProbability.def
      /\ run[r].res.data.shortlistProbability.v \in 0 .. 100
      /\ run[r].res.data.recommendation =
           Def("Fallback scoring used - manual review recommended")

\* C6 as stated: a run in which a notification send failed still ends in
\* Done with a 201, and the result has emailSent = false.
C6_Original ==
  \A r \in Runs :
    MailFailed(r) =>
      /\ run[r].pc \notin {"catch", "failed"}
      /\ run[r].pc = "done" =>
           (run[r].res.status = 201 /\ ~run[r].res.data.emailSent)

\* C7 as stated: in every 201 result, emailSent is true only if the
\* verdict's match score is at least 80.
C7_Original ==
  \A r \in Runs :
    (run[r].pc = "done" /\ run[r].res.data.emailSent) =>
      run[r].scoringResult.match_score >= HRNotifyThreshold

\* C8 as stated: the 201 result carries the verdict fields of the
\* ats_scores row the run inserted.
C8_Original ==
  \A r \in Runs :
    run[r].pc = "done" =>
      LET row == ScoreRow(run[r].atsScore, run[r].resume, run[r].job.job_id,
                          run[r].scoringResult)
          d   == run[r].res.data
      IN  /\ d.matchScore = Def(row.match_score)
          /\ d.shortlistProbability = Def(row.shortlist_probability)
          /\ d.salaryRange = Def(row.salary_range)
          /\ d.missingSkills = Def(row.missing_skills)
          /\ d.strongSkills = Def(row.strong_skills)
          /\ d.keyHighlights = Def(row.key_highlights)
          /\ d.areasOfConcern = Def(row.areas_of_concern)

\* C9 as stated: every run that ends in Failed with a staged upload has
\* called fs.unlink on it before answering.
C9_Original ==
  \A r \in Runs :
    (run[r].pc = "failed" /\ run[r].filePath) => run[r].unlinked

\* C10 as stated: a resumes row is only ever inserted while its job's status
\* is active.
C10_Original ==
  [][\A x \in resumes' \ resumes : jobs[x.job_id] = "active"]_vars

\* no applyForJob handler is running
AllTerminated == \A r \in Runs : run[r].pc \in {"idle", "returned", "done", "failed"}

\* the ats_scores rows that refer to a resume
VerdictsOf(resumeId) == {s \in scores : s.resume_id = resumeId}

\* C11 as stated: whenever no run is in progress, every resumes row has
\* exactly one ats_scores row referring to it.
C11_Original ==
  AllTerminated => \A x \in resumes : Cardinality(VerdictsOf(x.id)) = 1

\* C12: every ats_scores row refers to a resumes row that exists, whatever
\* runs and administrative deletes have happened.
C12_NoOrphanVerdict ==
  \A s \in scores : \E x \in resumes : x.id = s.resume_id

\* A run inserted its resume and its score, and an administrator then
\* deleted the resume: the score row went with it.
C12_Witness ==
  \E r \in Runs :
    /\ run[r].resume # 0 /\ run[r].atsScore # 0
    /\ ~ResumeLive(r)
    /\ ~ \E s \in scores : s.id = run[r].atsScore

(* ---------------------------------------------------------------------- *)
(* The API in front of the handlers: login, account suspension, and the    *)
(* middleware chains of the protected application routes.                  *)
(* ---------------------------------------------------------------------- *)
\* Candidate c1 has applied to the posting and was scored 80.
AccessInit ==
  /\ jobs = [j \in Jobs |-> "active"]
  /\ resumes = {[id |-> 1, job_id |-> "J1", candidate_user_id |-> "c1"]}
  /\ scores = {[ScoreRow(1, 1, "J1", GeminiVerdict(HRNotifyThreshold))
                  EXCEPT !.email_sent = TRUE]}
  /\ resumeSeq = 1
  /\ scoreSeq = 1
  /\ run = [r \in Runs |-> IdleRun]
  /\ cloud = 1
  /\ succeeded = {<< "c1", "J1" >>}
  /\ faults = 0
  /\ InitApi

\* authService.login: signInWithPassword, then the profile must be active
Login(u) ==
  /\ profiles[u].status = "active"
  /\ tokens' = tokens \cup {u}
  /\ UNCHANGED << pipelineVars, hrVars, svc, profiles, http >>

\* the access token expires
TokenExpires(u) ==
  /\ u \in tokens
  /\ tokens' = tokens \ {u}
  /\ UNCHANGED << pipelineVars, hrVars, svc, profiles, http >>

\* adminService.suspendUser: admins cannot be suspended
suspendUser(u) ==
  /\ profiles[u].role # "admin"
  /\ profiles[u].status # "suspended"
  /\ profiles' = [profiles EXCEPT ![u].status = "suspended"]
  /\ UNCHANGED << pipelineVars, hrVars, svc, tokens, http >>

\* adminService.reactivateUser
reactivateUser(u) ==
  /\ profiles[u].status = "suspended"
  /\ profiles' = [profiles EXCEPT ![u].status = "active"]
  /\ UNCHANGED << pipelineVars, hrVars, svc, tokens, http >>

\* authenticate: 401 unless Supabase accepts the token; req.user is then
\* {id, email, role, aud}, the role read from the profile
authenticate(u) ==
  IF u \in tokens
    THEN [ok |-> TRUE, status |-> 0, user |-> [id |-> u, role |-> profiles[u].role]]
    ELSE [ok |-> FALSE, status |-> 401, user |-> [id |-> "", role |-> ""]]

\* requireRole(...allowedRoles): 403 unless req.user.role is allowed
requireRole(allowedRoles, user) == IF user.role \in allowedRoles THEN 0 ELSE 403

\* atsModel.getApplicationById: the ats_scores row with this id, or null
getApplicationById(applicationId) == {s \in scores : s.id = applicationId}

\* the answer of a request, with the profile status of its sender
Answer(route, u, applicationId, status, reached) ==
  [route |-> route, user |-> u, applicationId |-> applicationId, status |-> status,
   reached |-> reached, userStatus |-> profiles[u].status]

\* POST /jobs/:jobId/apply: authenticate, requireRole('candidate'), then the
\* upload and applyForJob
RequestApply(u) ==
  /\ LET auth == authenticate(u)
     IN  http' =
           IF ~auth.ok THEN Answer("apply", u, 0, auth.status, FALSE)
           ELSE IF requireRole({"candidate"}, auth.user) # 0
             THEN Answer("apply", u, 0, requireRole({"candidate"}, auth.user), FALSE)
           ELSE Answer("apply", u, 0, 0, TRUE)
  /\ UNCHANGED << pipelineVars, hrVars, svc, profiles, tokens >>

\* GET /applications/:applicationId: authenticate, then getApplication
RequestGetApplication(u, applicationId) ==
  /\ LET auth == authenticate(u)
         application == getApplicationById(applicationId)
     IN  http' =
           IF ~auth.ok THEN Answer("getApplication", u, applicationId, auth.status, FALSE)
           ELSE IF application = {}
             THEN Answer("getApplication", u, applicationId, 404, TRUE)
           ELSE IF /\ auth.user.role = "candidate"
                   /\ \E a \in application :
                        Get(a, "candidate_user_id") # [def |-> TRUE, v |-> auth.user.id]
             THEN Answer("getApplication", u, applicationId, 403, TRUE)
           ELSE Answer("getApplication", u, applicationId, 200, TRUE)
  /\ UNCHANGED << pipelineVars, hrVars, svc, profiles, tokens >>

AccessNext ==
  \/ \E u \in Users : Login(u)
  \/ \E u \in Users : TokenExpires(u)
  \/ \E u \in Users : suspendUser(u)
  \/ \E u \in Users : reactivateUser(u)
  \/ \E u \in Users : RequestApply(u)
  \/ \E u \in Users, id \in Ids : RequestGetApplication(u, id)

AccessSpec == AccessInit /\ [][AccessNext]_vars

\* the candidate who submitted the application of the last request
Submitter(applicationId) ==
  {x.candidate_user_id : x \in {y \in resumes :
     \E s \in scores : s.id = applicationId /\ s.resume_id = y.id}}

\* C13 as stated: every verdict calculateATSScore returns, whatever the
\* upstream reply, has a match score in [0,100] and a shortlist probability
\* in [0,1] (0..100 hundredths).
C13_Original ==
  svc.fn = "calculateATSScore" =>
    /\ svc.ret[1].match_score \in 0 .. MatchScoreMax
    /\ svc.ret[1].shortlist_probability \in 0 .. 100

\* C14 as stated: sendHRNotification and sendCandidateConfirmation never
\* throw; with no recipient address or a transport error they return
\* {sent: false}.
C14_Original ==
  svc.fn \in {"sendHRNotification", "sendCandidateConfirmation"} =>
    /\ svc.ret[1].outcome = "returned"
    /\ (~Truthy(svc.arg[1].address) \/ ~svc.arg[1].transportOk) => ~svc.ret[1].sent

\* the run has finished its notification step
Notified(r) == run[r].pc \in {"updateFlag", "cleanup", "done"}

\* C15: a run enters the HR send only with a match score of at least 80,
\* and a run that is through its notification step has called
\* sendHRNotification if and only if its match score is at least 80.
C15_HRNotifiedIffThreshold ==
  \A r \in Runs :
    /\ run[r].pc = "sendHR" => run[r].scoringResult.match_score >= HRNotifyThreshold
    /\ "hrmail" \in run[r].calls => run[r].scoringResult.match_score >= HRNotifyThreshold
    /\ (Notified(r) /\ run[r].scoringResult.match_score >= HRNotifyThreshold)
         => "hrmail" \in run[r].calls

\* a run scored exactly 80 and the HR notification was sent
C15_Witness ==
  \E r \in Runs :
    /\ Notified(r)
    /\ run[r].scoringResult.match_score = HRNotifyThreshold
    /\ "hrmail" \in run[r].calls /\ "hr" \in run[r].mails

\* C16: a run answers once, when it terminates.  A failed run carries one
\* error message; its status is 4xx when the job is missing or not active
\* or the candidate has already applied, and 5xx when the upload, the
\* parser or a database operation failed.  A run whose scorer fell back
\* fails only on a later persistence failure, and a run whose mail send
\* failed does not fail at all.
C16_ErrorKinds ==
  \A r \in Runs :
    /\ run[r].pc \notin {"done", "failed"} => run[r].res = NoResponse
    /\ run[r].pc = "failed" =>
         /\ run[r].res.error # "" /\ run[r].cause # ""
         /\ run[r].cause \in {"job_missing", "job_inactive", "duplicate"}
              => Kind(run[r].res.status) = "validation"
         /\ run[r].cause \in {"upload", "parse", "persistence"}
              => Kind(run[r].res.status) = "infrastructure"
    /\ (run[r].fallback /\ run[r].pc \in {"catch", "failed"})
         => run[r].cause = "persistence"
    /\ MailFailed(r) => run[r].pc \notin {"catch", "failed"}

\* the resume parser failed and the run answered with a 500
C16_Witness ==
  \E r \in Runs :
    /\ run[r].pc = "failed" /\ run[r].cause = "parse"
    /\ run[r].res.status = 500

\* C17: a parser reply written with name and the same reply written with
\* full_name normalise to the same personalInfo.name.
C17_SameNameEitherConvention ==
  svc.fn = "normalizeParserResponse twice" =>
    svc.ret[1].personalInfo.name = svc.ret[2].personalInfo.name

\* the reply names the person under full_name only, and the name came through
C17_Witness ==
  /\ svc.fn = "normalizeParserResponse twice"
  /\ svc.arg[1].name = Str("Ann Lee") /\ svc.arg[1].full_name = Undefined
  /\ svc.arg[2].name = Undefined /\ svc.arg[2].full_name = Str("Ann Lee")
  /\ svc.ret[2].personalInfo.name = Str("Ann Lee")

\* typeof v === 'string'
IsString(v) == v.t = "string"

\* C18 as stated: in every normalised resume the string fields are strings
\* and the list fields are lists.
C18_Original ==
  svc.fn = "normalizeParserResponse" =>
    LET out == svc.ret[1]
    IN  /\ \A f \in DOMAIN out.personalInfo : IsString(out.personalInfo[f])
        /\ IsString(out.summary) /\ IsString(out.totalExperience)
        /\ out.experience.t = "array" /\ out.education.t = "array"
        /\ \A i \in DOMAIN out.experience.items :
             \A f \in DOMAIN out.experience.items[i] : IsString(out.experience.items[i][f])
        /\ IsArray(out.skills.technical) /\ IsArray(out.skills.soft)
        /\ IsArray(out.skills.all)
        /\ IsArray(out.certifications) /\ IsArray(out.languages)

\* C19 as stated: a request that a suspended user makes to a protected
\* route is rejected before it reaches the handler.
C19_Original ==
  (http.route # "none" /\ http.userStatus = "suspended") => ~http.reached

\* C20 as stated: GET /applications/:applicationId answers 200 only to the
\* candidate who submitted the application, to an hr_approved user or to
\* an admin.
C20_Original ==
  (http.route = "getApplication" /\ http.status = 200) =>
    \/ profiles[http.user].role \in {"hr_approved", "admin"}
    \/ /\ profiles[http.user].role = "candidate"
       /\ http.user \in Submitter(http.applicationId)

\* C22: from the moment its ats_scores row is inserted a run never enters
\* the catch block or Failed, and it eventually reaches Done with a 201,
\* whatever the HR send, the candidate send, the flag update and the
\* unlink do.  Stated as: a run holding a score row is never in catch or
\* Failed and answers 201 when Done; a run lets go of its score row only by
\* returning from Done; and no run holds a score row forever without being
\* Done.
C22_DoneAfterVerdict ==
  /\ [](\A r \in Runs : run[r].atsScore # 0 =>
           /\ run[r].pc \notin {"catch", "failed"}
           /\ run[r].pc = "done" => run[r].res.status = 201)
  /\ [][\A r \in Runs : (run[r].atsScore # 0 /\ run'[r].atsScore = 0) =>
                            run[r].pc = "done"]_vars
  /\ \A r \in Runs : []<>(run[r].atsScore = 0 \/ run[r].pc = "done")

\* a run answered 201 although its unlink failed
C22_Witness ==
  \E r \in Runs :
    /\ run[r].atsScore # 0 /\ run[r].pc = "done" /\ run[r].res.status = 201
    /\ run[r].unlinked /\ run[r].tmp = "staged"

\* C23 as stated: a run that starts when a finished run has left the pair
\* a resume without a score is rejected as a duplicate.
C23_Original ==
  \A r \in Runs :
    (Terminated(r) /\ run[r].afterOrphan /\ ~run[r].resumeGone) =>
      run[r].cause = "duplicate"

\* C23 amended: a run whose score insert failed ends with a 500 and leaves
\* its resume without a score.  A run that starts afterwards for the same
\* pair, while the resume is not deleted, never gets past the validation:
\* it calls no gateway and inserts neither a resume nor a score; it ends
\* with a validation error (no file, duplicate, or job missing / not
\* active), or with a 500 when one of its two lookups failed.
C23_OrphanBlocksPair ==
  \A r \in Runs :
    /\ (run[r].pc = "failed" /\ run[r].resume # 0) =>
         /\ run[r].res.status = 500 /\ run[r].atsScore = 0
         /\ VerdictsOf(run[r].resume) = {}
    /\ (run[r].afterOrphan /\ ~run[r].resumeGone) =>
         /\ run[r].pc \in {"getJob", "checkDup", "catch", "failed"}
         /\ run[r].calls = {} /\ run[r].resume = 0 /\ run[r].atsScore = 0
         /\ run[r].pc = "catch" => run[r].lookupFailed
         /\ run[r].pc = "failed" =>
              \/ run[r].cause \in {"file", "duplicate", "job_missing", "job_inactive"}
                   /\ Kind(run[r].res.status) = "validation"
              \/ run[r].lookupFailed /\ Kind(run[r].res.status) = "infrastructure"

\* a run that started after an orphaned resume was refused as a duplicate,
\* and the resume still has no score
C23_Witness ==
  \E r \in Runs :
    /\ run[r].afterOrphan /\ ~run[r].resumeGone
    /\ run[r].pc = "failed" /\ run[r].cause = "duplicate"
    /\ \E x \in resumes : /\ x.candidate_user_id = run[r].cand
                           /\ x.job_id = run[r].jobId
                           /\ VerdictsOf(x.id) = {}

\* C24: a run whose upload or parse failed goes to the catch block and
\* ends with a 500, with no resume, no score and no mail; after a parse
\* failure the uploaded object is still in the store; and no step of any
\* run ever removes an object from the store.
C24_UploadParseFatal ==
  /\ [](\A r \in Runs : run[r].cause \in {"upload", "parse"} =>
           /\ run[r].pc \in {"catch", "failed"}
           /\ run[r].pc = "failed" => run[r].res.status = 500
           /\ run[r].resume = 0 /\ run[r].atsScore = 0 /\ run[r].mails = {}
           /\ run[r].cause = "parse" => (run[r].uploaded /\ cloud >= 1))
  /\ [][cloud' >= cloud]_vars

\* the parser failed after the upload: the run answered 500 and the object
\* is in the store
C24_Witness ==
  \E r \in Runs :
    /\ run[r].pc = "failed" /\ run[r].cause = "parse" /\ run[r].res.status = 500
    /\ run[r].uploaded /\ cloud >= 1 /\ resumes = {}

\* C25 as stated: deleteApplication called with the applicationId that a
\* finished run returned in its 201 (the id of the ats_scores row the run
\* inserted) removes that row and its resume, and nothing else.
C25_Original ==
  [][\A s \in scores :
       (/\ \A r \in Runs : run[r].atsScore # s.id
        /\ DeleteApplication(s.id)) =>
         /\ resumes' = {x \in resumes : x.id # s.resume_id}
         /\ scores' = scores \ {s}]_vars

\* C26 as stated: when a run is Done and its ats_scores row has email_sent
\* true, the HR notification of the run was sent.
C26_Original ==
  \A r \in Runs :
    run[r].pc = "done" =>
      \A s \in scores : (s.id = run[r].atsScore /\ s.email_sent) => "hr" \in run[r].mails

\* C29 as stated: when a run is Done, the emailSent of its response equals
\* the email_sent of its ats_scores row.
C29_Original ==
  \A r \in Runs :
    run[r].pc = "done" =>
      \A s \in scores : s.id = run[r].atsScore => s.email_sent = run[r].res.data.emailSent

\* C30 as stated: every run that got through its notification step has
\* attempted the candidate confirmation.
C30_Original ==
  \A r \in Runs : run[r].pc \in {"cleanup", "done"} => "candmail" \in run[r].calls

(* ---------------------------------------------------------------------- *)
(* Review of HR requests (services/admin.service.js,                       *)
(* models/hrRequest.model.js, models/user.model.js), one action per await  *)
(* ---------------------------------------------------------------------- *)
\* getHRRequestById: .eq('id', requestId).single(); null when no row
getHRRequestById(requestId) ==
  IF requestId \in RequestIds THEN hrRequests[requestId] ELSE NoRequestRow

ReviewFailed(v, msg) == [review[v] EXCEPT !.pc = "failed", !.error = msg]

\* POST /hr-requests/:id/approve or /reject (the reject controller has
\* checked that a reason is given): the service starts and awaits the read
StartReview(v, kind, id) ==
  /\ review[v].pc = "idle"
  /\ review' = [review EXCEPT ![v] = [IdleReview EXCEPT !.pc = "read", !.kind = kind, !.id = id]]
  /\ UNCHANGED << pipelineVars, svc, profiles, tokens, http, hrRequests, roleEdited >>

\* const request = await getHRRequestById(requestId), then the two checks
ReadRequest(v, dbOk) ==
  /\ review[v].pc = "read"
  /\ LET request == getHRRequestById(review[v].id)
     IN  review' = [review EXCEPT ![v] =
           IF ~dbOk THEN ReviewFailed(v, "Database operation failed")
           ELSE IF request = NoRequestRow THEN ReviewFailed(v, "HR request not found")
           ELSE IF request.status # "pending" THEN ReviewFailed(v, "HR request is already")
           ELSE [review[v] EXCEPT !.pc = "update", !.request = request]]
  /\ Fault(dbOk)
  /\ UNCHANGED << jobs, resumes, scores, resumeSeq, scoreSeq, run, cloud, succeeded,
                  svc, profiles, tokens, http, hrRequests, roleEdited >>

\* hrRequestModel.approveHRRequest / rejectHRRequest:
\* .update({status, ...}).eq('id', requestId), no condition on the status
UpdateRequest(v, dbOk) ==
  /\ review[v].pc = "update"
  /\ IF dbOk THEN
       /\ hrRequests' = [hrRequests EXCEPT ![review[v].id].status =
                           IF review[v].kind = "approve" THEN "approved" ELSE "rejected"]
       /\ review' = [review EXCEPT ![v].pc =
                       IF review[v].kind = "approve" THEN "role" ELSE "done"]
     ELSE
       /\ review' = [review EXCEPT ![v] = ReviewFailed(v, "Database operation failed")]
       /\ UNCHANGED hrRequests
  /\ Fault(dbOk)
  /\ UNCHANGED << jobs, resumes, scores, resumeSeq, scoreSeq, run, cloud, succeeded,
                  svc, profiles, tokens, http, roleEdited >>

\* userModel.updateUserRole(userId, newRole)
updateUserRole(userId, newRole) == [profiles EXCEPT ![userId].role = newRole]

\* await userModel.updateUserRole(request.user_id, 'hr_approved'); the
\* company creation that follows is in its own try / catch and touches
\* neither the request nor the role
UpdateRole(v, dbOk) ==
  /\ review[v].pc = "role"
  /\ IF dbOk THEN
       /\ profiles' = updateUserRole(review[v].request.user_id, "hr_approved")
       /\ review' = [review EXCEPT ![v].pc = "done"]
     ELSE
       /\ review' = [review EXCEPT ![v] = ReviewFailed(v, "Database operation failed")]
       /\ UNCHANGED profiles
  /\ Fault(dbOk)
  /\ UNCHANGED << jobs, resumes, scores, resumeSeq, scoreSeq, run, cloud, succeeded,
                  svc, tokens, http, hrRequests, roleEdited >>

\* the controller answers 200 or passes the error on
ReviewReturn(v) ==
  /\ review[v].pc \in {"done", "failed"}
  /\ review' = [review EXCEPT ![v] = IdleReview]
  /\ UNCHANGED << pipelineVars, svc, profiles, tokens, http, hrRequests, roleEdited >>

\* roles an administrator can give to an HR user
AssignableRoles == {"candidate", "hr_pending", "hr_approved"}

\* PUT /users/:userId/role -> adminService.updateUserRole
AdminUpdateUserRole(u, newRole) ==
  /\ profiles[u].role # newRole
  /\ profiles' = updateUserRole(u, newRole)
  /\ roleEdited' = roleEdited \cup {u}
  /\ UNCHANGED << pipelineVars, svc, tokens, http, hrRequests, review >>

ReviewNext ==
  \/ \E v \in Reviews, k \in {"approve", "reject"}, id \in RequestParams : StartReview(v, k, id)
  \/ \E v \in Reviews, ok \in BOOLEAN : ReadRequest(v, ok)
  \/ \E v \in Reviews, ok \in BOOLEAN : UpdateRequest(v, ok)
  \/ \E v \in Reviews, ok \in BOOLEAN : UpdateRole(v, ok)
  \/ \E v \in Reviews : ReviewReturn(v)
  \/ \E u \in {"h1", "h2"}, ro \in AssignableRoles : AdminUpdateUserRole(u, ro)

ReviewSpec == Init /\ [][ReviewNext]_vars

\* no approve call for request q is between its update and its return
NoApprovalInProgress(q) ==
  \A v \in Reviews :
    ~(review[v].kind = "approve" /\ review[v].id = q /\ review[v].pc \in {"update", "role"})

\* C21 as stated: once no approval of it is in progress, an approved HR
\* request belongs to a user whose role is hr_approved, unless an
\* administrator has set that user's role through the role endpoint.
C21_Original ==
  \A q \in RequestIds :
    (/\ hrRequests[q].status = "approved"
     /\ NoApprovalInProgress(q)
     /\ hrRequests[q].user_id \notin roleEdited) =>
      profiles[hrRequests[q].user_id].role = "hr_approved"

\* C28 as stated: the status of an HR request that is approved or rejected
\* never changes again.
C28_Original ==
  [][\A q \in RequestIds :
       hrRequests[q].status # "pending" => hrRequests'[q].status = hrRequests[q].status]_vars

\* the vocabulary skills a text contains
SkillsIn(text) == {commonSkills[i] : i \in {k \in DOMAIN commonSkills : Includes(text, commonSkills[k])}}

\* position of a skill in the vocabulary
VocabularyIndex(skill) == CHOOSE i \in DOMAIN commonSkills : commonSkills[i] = skill

Elements(q) == {q[i] : i \in DOMAIN q}

\* q lists, in vocabulary order and without repetition, the first
\* Min(n, |S|) skills of S
FirstOf(q, S, n) ==
  /\ Len(q) = Min(n, Cardinality(S))
  /\ Elements(q) \subseteq S
  /\ \A i, k \in DOMAIN q : i < k => VocabularyIndex(q[i]) < VocabularyIndex(q[k])
  /\ \A x \in S : \A i \in DOMAIN q : VocabularyIndex(x) < VocabularyIndex(q[i]) => x \in Elements(q)

\* n is 100 * f / d rounded to the nearest integer (half up), at most 100
IsRoundedPercent(n, f, d) ==
  \/ n = 100 /\ 200 * f + d >= 200 * d
  \/ n \in 0..99 /\ 2 * n * d <= 200 * f + d /\ 200 * f + d < 2 * (n + 1) * d

\* C27 as stated: the strong skills are exactly the vocabulary skills in both
\* texts, the missing skills exactly those in the job text only, the score is
\* 100 x strong / max(job skills, 1) rounded and clamped, and the
\* probability is score / 100.
C27_Original ==
  svc.fn = "generateFallbackScore" =>
    LET in  == svc.arg[1]
        out == svc.ret[1]
        both    == SkillsIn(in.resumeText) \cap SkillsIn(in.jobText)
        jobOnly == SkillsIn(in.jobText) \ SkillsIn(in.resumeText)
    IN  /\ Elements(out.strong_skills) = both
        /\ Elements(out.missing_skills) = jobOnly
        /\ IsRoundedPercent(out.match_score, Len(out.strong_skills),
                            Max(Cardinality(SkillsIn(in.jobText)), 1))
        /\ out.shortlist_probability = out.match_score

\* C27 amended: the strong list holds the first five (in vocabulary order)
\* of the vocabulary skills in both texts, the missing list the first five
\* of those in the job text only; the score is computed from the number of
\* all skills in both texts, listed or not: 100 x that number / max(job
\* skills, 1), rounded, within [0,100]; the probability is score / 100.
C27_FallbackVerdict ==
  svc.fn = "generateFallbackScore" =>
    LET in  == svc.arg[1]
        out == svc.ret[1]
        both    == SkillsIn(in.resumeText) \cap SkillsIn(in.jobText)
        jobOnly == SkillsIn(in.jobText) \ SkillsIn(in.resumeText)
    IN  /\ FirstOf(out.strong_skills, both, FallbackSliceLen)
        /\ FirstOf(out.missing_skills, jobOnly, FallbackSliceLen)
        /\ IsRoundedPercent(out.match_score, Cardinality(both),
                            Max(Cardinality(SkillsIn(in.jobText)), 1))
        /\ out.match_score \in 0..100
        /\ out.shortlist_probability = out.match_score

\* six of the seven skills of the job text are in the resume: five are
\* listed, the score is 86
C27_Witness ==
  /\ svc.fn = "generateFallbackScore"
  /\ Cardinality(SkillsIn(svc.arg[1].resumeText) \cap SkillsIn(svc.arg[1].jobText)) = 6
  /\ Len(svc.ret[1].strong_skills) = 5
  /\ Len(svc.ret[1].missing_skills) = 1
  /\ svc.ret[1].match_score = 86

====
